---- MODULE Spec2Model ----
(***************************************************************************)
(* Model of frust_ngon.py: the frustum (lampshade) / cylinder (glass)      *)
(* intersection solve, the cut lengths, the feedback title, and the four   *)
(* sliders that re-run update_plot.                                        *)
(*                                                                         *)
(* The program computes in binary floating point.  The model keeps that:   *)
(* a number is m * 2^e with a P-bit significand, and every arithmetic      *)
(* operation rounds its exact result to nearest, ties to even, as IEEE 754 *)
(* does.  The exponent is unbounded (no overflow or underflow).  Library   *)
(* calls (cos, sin, tan) are tables of the values the double library       *)
(* returns, rounded to P bits.                                             *)
(***************************************************************************)
EXTENDS Integers, Sequences, FiniteSets, TLC

\* Significand width of the modelled floating-point format.
P == 12

----------------------------------------------------------------------------
(* Floating-point arithmetic: round to nearest, ties to even.              *)

RECURSIVE Pow2Rec(_)
Pow2Rec(k) == IF k <= 0 THEN 1 ELSE 2 * Pow2Rec(k - 1)

Pow2Table == [k \in 0..30 |-> Pow2Rec(k)]

Pow2(k) == Pow2Table[k]

RECURSIVE BitLen(_)
BitLen(a) == IF a = 0 THEN 0 ELSE 1 + BitLen(a \div 2)

IAbs(i) == IF i < 0 THEN -i ELSE i

ISgn(i) == IF i < 0 THEN -1 ELSE IF i = 0 THEN 0 ELSE 1

Zero == [m |-> 0, e |-> 0]

\* The float nearest to the exact value m * 2^e.
Round(m, e) ==
    LET a == IAbs(m)
        n == BitLen(a)
    IN  IF a = 0 THEN Zero
        ELSE IF n <= P THEN [m |-> m * Pow2(P - n), e |-> e - (P - n)]
        ELSE LET k    == n - P
                 q    == a \div Pow2(k)
                 r    == a % Pow2(k)
                 half == Pow2(k - 1)
                 up   == r > half \/ (r = half /\ q % 2 = 1)
                 q2   == IF up THEN q + 1 ELSE q
             IN  IF q2 = Pow2(P)
                 THEN [m |-> ISgn(m) * Pow2(P - 1), e |-> e + k + 1]
                 ELSE [m |-> ISgn(m) * q2, e |-> e + k]

FromInt(i) == Round(i, 0)

FNeg(a) == [m |-> -a.m, e |-> a.e]

FAbs(a) == [m |-> IAbs(a.m), e |-> a.e]

FAdd(a, b) ==
    IF a.m = 0 THEN b
    ELSE IF b.m = 0 THEN a
    ELSE LET hi == IF a.e >= b.e THEN a ELSE b
             lo == IF a.e >= b.e THEN b ELSE a
             d  == hi.e - lo.e
         IN  IF d > P + 1 THEN hi
             ELSE Round(hi.m * Pow2(d) + lo.m, lo.e)

FSub(a, b) == FAdd(a, FNeg(b))

FMul(a, b) == Round(a.m * b.m, a.e + b.e)

\* b is not zero.  The quotient keeps P + 2 bits and a sticky bit, so that
\* Round rounds the exact quotient.
FDiv(a, b) ==
    LET n == IAbs(a.m) * Pow2(P + 2)
        d == IAbs(b.m)
        q == n \div d
        s == IF n % d = 0 THEN 0 ELSE 1
    IN  Round(ISgn(a.m) * ISgn(b.m) * (2 * q + s), a.e - b.e - (P + 3))

RECURSIVE ISqrtIn(_, _, _)
ISqrtIn(x, lo, hi) ==
    IF lo >= hi THEN lo
    ELSE LET mid == (lo + hi + 1) \div 2
         IN  IF mid * mid <= x THEN ISqrtIn(x, mid, hi)
             ELSE ISqrtIn(x, lo, mid - 1)

ISqrt(x) == ISqrtIn(x, 0, Pow2(P + 3))

\* a is not negative.
FSqrt(a) ==
    IF a.m = 0 THEN Zero
    ELSE LET k  == IF (a.e - (P + 2)) % 2 = 0 THEN P + 2 ELSE P + 3
             x  == a.m * Pow2(k)
             r  == ISqrt(x)
             s  == IF r * r = x THEN 0 ELSE 1
         IN  Round(2 * r + s, ((a.e - k) \div 2) - 1)

\* a < b, exactly.
FLt(a, b) ==
    IF ISgn(a.m) # ISgn(b.m) THEN ISgn(a.m) < ISgn(b.m)
    ELSE IF a.m = 0 THEN FALSE
    ELSE IF a.m > 0
         THEN a.e < b.e \/ (a.e = b.e /\ a.m < b.m)
         ELSE a.e > b.e \/ (a.e = b.e /\ a.m < b.m)

FLe(a, b) == a = b \/ FLt(a, b)

\* A decimal or library constant, given to 24 bits and rounded to the format.
Lit(m, e) == Round(m, e)

----------------------------------------------------------------------------
(* Library functions.                                                      *)
(* Angles are kept exactly, in units of pi/840 (840 is divisible by every  *)
(* side count 1..8, and by 5).  np.cos and np.sin are the table of what    *)
(* the double library returns at the angles the program forms: a row is    *)
(* <<angle, cos m, cos e, sin m, sin e>>.                                  *)

\* np.pi
HalfTurn == 840

TrigRows ==
  <<
    <<   0,   8388608,  -23,         0,    0>>,
    << 168,  13573053,  -24,   9861400,  -24>>,
    << 210,  11863283,  -24,  11863283,  -24>>,
    << 240,  10460423,  -24,  13116956,  -24>>,
    << 280,   8388608,  -24,  14529495,  -24>>,
    << 336,  10368890,  -25,  15956081,  -24>>,
    << 378,  10498139,  -26,  16570661,  -24>>,
    << 408,  12043311,  -28,  16760322,  -24>>,
    << 420,   9253170,  -77,   8388608,  -23>>,
    << 448, -14029573,  -27,  16685309,  -24>>,
    << 480, -14933127,  -26,  16356576,  -24>>,
    << 504, -10368890,  -25,  15956081,  -24>>,
    << 560,  -8388608,  -24,  14529495,  -24>>,
    << 588,  -9861400,  -24,  13573053,  -24>>,
    << 630, -11863283,  -24,  11863283,  -24>>,
    << 648, -12634443,  -24,  11038380,  -24>>,
    << 672, -13573053,  -24,   9861400,  -24>>,
    << 720, -15115749,  -24,  14558722,  -25>>,
    << 728, -15326749,  -24,  13647817,  -25>>,
    << 798, -16570661,  -24,  10498139,  -26>>,
    << 840,  -8388608,  -23,   9253170,  -76>>,
    << 888, -16507599,  -24, -11982750,  -26>>,
    << 960, -15115749,  -24, -14558722,  -25>>,
    <<1008, -13573053,  -24,  -9861400,  -24>>,
    <<1050, -11863283,  -24, -11863283,  -24>>,
    <<1120,  -8388608,  -24, -14529495,  -24>>,
    <<1128, -15900394,  -25, -14773941,  -24>>,
    <<1176, -10368890,  -25, -15956081,  -24>>,
    <<1200, -14933127,  -26, -16356576,  -24>>,
    <<1218, -10498139,  -26, -16570661,  -24>>,
    <<1260, -13879754,  -76,  -8388608,  -23>>,
    <<1288,  14029573,  -27, -16685309,  -24>>,
    <<1344,  10368890,  -25, -15956081,  -24>>,
    <<1368,  13187732,  -25, -15427116,  -24>>,
    <<1400,   8388608,  -24, -14529495,  -24>>,
    <<1428,   9861400,  -24, -13573053,  -24>>,
    <<1440,  10460423,  -24, -13116956,  -24>>,
    <<1470,  11863283,  -24, -11863283,  -24>>,
    <<1512,  13573053,  -24,  -9861400,  -24>>,
    <<1568,  15326749,  -24, -13647817,  -25>>,
    <<1608,  16172613,  -24,  -8926715,  -25>>,
    <<1638,  16570661,  -24, -10498139,  -26>>
  >>

TrigRow(a) == CHOOSE i \in 1..Len(TrigRows) : TrigRows[i][1] = a

TrigAngles == {TrigRows[i][1] : i \in 1..Len(TrigRows)}

CosTable == [a \in TrigAngles |-> Lit(TrigRows[TrigRow(a)][2], TrigRows[TrigRow(a)][3])]

SinTable == [a \in TrigAngles |-> Lit(TrigRows[TrigRow(a)][4], TrigRows[TrigRow(a)][5])]

NpCos(a) == CosTable[a % (2 * HalfTurn)]

NpSin(a) == SinTable[a % (2 * HalfTurn)]

\* Row n: np.cos(np.radians(180 / n)) and np.tan(np.radians(180 / n)), as
\* <<cos m, cos e, tan m, tan e>>, for n = 1..8.
DegRows ==
  <<
    << -8388608,  -23,  -9253170,  -76>>,
    <<  9253170,  -77,  15209652,   30>>,
    <<  8388608,  -24,  14529495,  -23>>,
    << 11863283,  -24,   8388608,  -23>>,
    << 13573053,  -24,  12189361,  -24>>,
    << 14529495,  -24,   9686330,  -24>>,
    << 15115749,  -24,  16158963,  -25>>,
    << 15500126,  -24,  13898701,  -25>>
  >>

CosRadians180Over(sides) == Lit(DegRows[sides][1], DegRows[sides][2])

TanRadians180Over(sides) == Lit(DegRows[sides][3], DegRows[sides][4])

\* np.clip(x, lo, hi)
NpClip(x, lo, hi) == IF FLt(x, lo) THEN lo ELSE IF FLt(hi, x) THEN hi ELSE x

RECURSIVE Pow10(_)
Pow10(d) == IF d <= 0 THEN 1 ELSE 10 * Pow10(d - 1)

\* n / 2^k rounded to the nearest integer, ties to even (n >= 0).
DivPow2Even(n, k) ==
    IF k > 30 THEN 0
    ELSE LET q == n \div Pow2(k)
             r == n % Pow2(k)
         IN  IF 2 * r > Pow2(k) \/ (2 * r = Pow2(k) /\ q % 2 = 1)
             THEN q + 1 ELSE q

\* format(x, ".<d>f"): the decimal with d places nearest to x, as the integer
\* count of 10^-d.
FormatFixed(x, d) ==
    LET n == IAbs(x.m) * Pow10(d)
    IN  ISgn(x.m) * (IF x.e >= 0 THEN n * Pow2(x.e) ELSE DivPow2Even(n, -x.e))

----------------------------------------------------------------------------
(* The program.                                                            *)

VARIABLES
    s_bot,   \* 'Shade bottom' slider value: f_bot_R of the latest call
    s_top,   \* 'Shade top' slider value: f_top_R of the latest call
    s_cyl,   \* 'Glass radius' slider value: c_r of the latest call
    s_sid,   \* 'Num Sides' slider value: sides of the latest call
    ax,      \* the 3D axes: what is drawn and the title shown
    frame,   \* the latest update_plot call: how it ended and its locals
    prev     \* the call before it: its c_r and z_int, for comparing two solves

vars == <<s_bot, s_top, s_cyl, s_sid, ax, frame, prev>>

init_sides == 5

f_h == FromInt(5)

\* The literals of update_plot.
TAPER_EPS == Lit(10995116, -40)     \* 1e-5

NO_TAPER_Z == FromInt(-1)           \* -1

STEM_TOP == Lit(10737418, -30)      \* 0.01

\* The angle of vertex i (0-based) of a ring: np.linspace(0, 2*pi, sides+1)[i]
VertexAngle(i, sides) == (2 * HalfTurn * i) \div sides

\* The phase added to every midpoint angle: np.pi / 5
MidpointPhase(sides) == HalfTurn \div 5

\* A point: its x, y, z, and (not in the array the program builds) the angle a
\* it was generated at.  Element i + 1 of a ring is the program's element i.
get_face_vertices(radius, z, sides) ==
    [k \in 1..sides |->
        LET a == VertexAngle(k - 1, sides)
        IN  [a |-> a, x |-> FMul(radius, NpCos(a)),
             y |-> FMul(radius, NpSin(a)), z |-> z]]

get_face_midpoints(inradius, z, sides) ==
    [k \in 1..sides |->
        LET a == VertexAngle(k - 1, sides) + MidpointPhase(sides)
        IN  [a |-> a, x |-> FMul(inradius, NpCos(a)),
             y |-> FMul(inradius, NpSin(a)), z |-> z]]

get_inradius(s_len, sides) ==
    FDiv(FDiv(s_len, FromInt(2)), TanRadians180Over(sides))

Sq(x) == FMul(x, x)

\* Lines 59-64: the apothems (COS36 is cos(180/sides degrees)) and the
\* solved height.
Apothem(R, sides) == FMul(R, CosRadians180Over(sides))

Tapered(r_bot, r_top) == FLt(TAPER_EPS, FAbs(FSub(r_top, r_bot)))

\* The height measured from the top apothem.
SolveZ_from_top(r_bot, r_top, c_r) ==
    IF Tapered(r_bot, r_top)
    THEN FMul(FSub(c_r, r_top), FDiv(f_h, FSub(r_top, r_bot)))
    ELSE NO_TAPER_Z

\* The sentinel of the untapered case in the valid range.
SolveZ_sentinel_zero(r_bot, r_top, c_r) ==
    IF Tapered(r_bot, r_top)
    THEN FMul(FSub(c_r, r_bot), FDiv(f_h, FSub(r_top, r_bot)))
    ELSE Zero

\* The operands of the subtraction of line 62 exchanged.
SolveZ_swapped(r_bot, r_top, c_r) ==
    IF Tapered(r_bot, r_top)
    THEN FMul(FSub(r_bot, c_r), FDiv(f_h, FSub(r_top, r_bot)))
    ELSE NO_TAPER_Z

SolveZ(r_bot, r_top, c_r) ==
    IF Tapered(r_bot, r_top)
    THEN FMul(FSub(c_r, r_bot), FDiv(f_h, FSub(r_top, r_bot)))
    ELSE NO_TAPER_Z

\* Lines 78-79: the length of the edge between vertices 0 and 1 of a ring.
EdgeLen(v) ==
    FSqrt(FAdd(Sq(FSub(v[1].x, v[2].x)), Sq(FSub(v[1].y, v[2].y))))

\* The bottom midpoint taken from the next face.
SlantLen_next_face(m_top, m_bot) ==
    FSqrt(FAdd(FAdd(Sq(FSub(m_top[1].x, m_bot[2].x)),
                    Sq(FSub(m_top[1].y, m_bot[2].y))),
               Sq(FSub(m_top[1].z, m_bot[2].z))))

\* Line 82: the distance between midpoint 0 of the top and of the bottom ring.
SlantLen(m_top, m_bot) ==
    FSqrt(FAdd(FAdd(Sq(FSub(m_top[1].x, m_bot[1].x)),
                    Sq(FSub(m_top[1].y, m_bot[1].y))),
               Sq(FSub(m_top[1].z, m_bot[1].z))))

\* The decision taken on the clamped height.
Covered_clamped(z_int, z_vis) == FLe(Zero, z_vis) /\ FLe(z_vis, f_h)

\* The decision with the lower end excluded.
Covered_strict(z_int, z_vis) == FLt(Zero, z_int) /\ FLe(z_int, f_h)

\* Line 104: the validity decision.
Covered(z_int, z_vis) == FLe(Zero, z_int) /\ FLe(z_int, f_h)

\* Line 89: the top of the drawn glass.
GlassTop(z_int, z_vis) == IF FLt(Zero, z_int) THEN z_vis ELSE STEM_TOP

\* Lines 107-112: the title.
Title(covered, z_int, z_vis, v_top_len, v_bot_len, m_len) ==
    IF covered
    THEN [text   |-> "Height of glass covered",
          height |-> FormatFixed(z_int, 2),
          top    |-> FormatFixed(v_top_len, 1),
          bottom |-> FormatFixed(v_bot_len, 1),
          length |-> FormatFixed(m_len, 1)]
    ELSE [text |-> "No Side Intersection"]

\* The axes left as they are.
AxClear_keep(a) == a

\* ax.clear(): nothing drawn, no title.
AxClear(a) == [shade |-> <<>>, glass_top |-> Zero, scatter |-> <<>>,
               title |-> [text |-> ""]]

\* fig.add_subplot(111, projection='3d')
NewAxes == [shade |-> <<>>, glass_top |-> Zero, scatter |-> <<>>,
            title |-> [text |-> ""]]

\* update_plot, statement by statement.  L is the record of the locals
\* assigned so far; each step evaluates it once and adds the locals of the
\* lines it models.
Step59(L) ==    \* lines 59-60
    CHOOSE out \in { l @@ [r_bot |-> Apothem(l.f_bot_R, l.sides),
                           r_top |-> Apothem(l.f_top_R, l.sides)]
                     : l \in {L} } : TRUE

Step61(L) ==    \* lines 61-64
    CHOOSE out \in { l @@ [z_int |-> SolveZ(l.r_bot, l.r_top, l.c_r)]
                     : l \in {L} } : TRUE

Step66(L) ==    \* lines 66-70
    CHOOSE out \in { l @@ [z_vis |-> NpClip(l.z_int, Zero, f_h),
                           v_bot |-> get_face_vertices(l.f_bot_R, Zero, l.sides),
                           v_top |-> get_face_vertices(l.f_top_R, f_h, l.sides)]
                     : l \in {L} } : TRUE

Step78(L) ==    \* lines 78-79
    CHOOSE out \in { l @@ [v_bot_len |-> EdgeLen(l.v_bot),
                           v_top_len |-> EdgeLen(l.v_top)]
                     : l \in {L} } : TRUE

Step80(L) ==    \* lines 80-81, the arguments
    CHOOSE out \in { l @@ [in_top |-> get_inradius(l.v_top_len, l.sides),
                           in_bot |-> get_inradius(l.v_bot_len, l.sides)]
                     : l \in {L} } : TRUE

Step81(L) ==    \* lines 80-81, the calls
    CHOOSE out \in { l @@ [m_top |-> get_face_midpoints(l.in_top, f_h, l.sides),
                           m_bot |-> get_face_midpoints(l.in_bot, Zero, l.sides)]
                     : l \in {L} } : TRUE

Step82(L) ==    \* line 82, and the condition of line 104
    CHOOSE out \in { l @@ [m_len   |-> SlantLen(l.m_top, l.m_bot),
                           covered |-> Covered(l.z_int, l.z_vis)]
                     : l \in {L} } : TRUE

\* Lines 71-75: the shade drawn on the cleared axes.
DrawShade(l) == [l.ax EXCEPT !.shade = <<l.v_bot, l.v_top>>]

\* v_bot[1] at line 78 with a ring of one vertex.
Raise78(L) ==
    CHOOSE out \in
        { [ax    |-> DrawShade(l),
           frame |-> [status |-> "raised", exc |-> "IndexError",
                      r_bot |-> l.r_bot, r_top |-> l.r_top,
                      z_int |-> l.z_int, z_vis |-> l.z_vis]]
          : l \in {L} } : TRUE

\* Lines 84-117: the glass, the intersection points and the title.
Return117(L) ==
    CHOOSE out \in
        { [ax    |-> [DrawShade(l) EXCEPT
                        !.glass_top = GlassTop(l.z_int, l.z_vis),
                        !.scatter = IF l.covered
                                    THEN get_face_midpoints(l.c_r, l.z_int, l.sides)
                                    ELSE @,
                        !.title = Title(l.covered, l.z_int, l.z_vis,
                                        l.v_top_len, l.v_bot_len, l.m_len)],
           frame |-> [status |-> "returned",
                      r_bot |-> l.r_bot, r_top |-> l.r_top,
                      z_int |-> l.z_int, z_vis |-> l.z_vis,
                      v_bot_len |-> l.v_bot_len, v_top_len |-> l.v_top_len,
                      in_bot |-> l.in_bot, in_top |-> l.in_top,
                      m_bot |-> l.m_bot, m_top |-> l.m_top, m_len |-> l.m_len]]
          : l \in {L} } : TRUE

\* update_plot: the axes it leaves and the frame of the call.  With sides = 1
\* a ring has one vertex and v_bot[1] (line 78) raises IndexError, after the
\* axes were cleared and the shade drawn.
update_plot(a0, f_bot_R, f_top_R, c_r, sides) ==
    IF sides < 2
    THEN Raise78(Step66(Step61(Step59(
            [ax |-> AxClear(a0), f_bot_R |-> f_bot_R, f_top_R |-> f_top_R,
             c_r |-> c_r, sides |-> sides]))))
    ELSE Return117(Step82(Step81(Step80(Step78(Step66(Step61(Step59(
            [ax |-> AxClear(a0), f_bot_R |-> f_bot_R, f_top_R |-> f_top_R,
             c_r |-> c_r, sides |-> sides]))))))))

----------------------------------------------------------------------------
(* The window: four sliders, each calling update on a change.              *)

\* Slider(ax, label, valmin, valmax, valinit, valstep): a slider's value is
\* valmin plus a whole number of steps.
SliderVal(valmin, valstep, j) == FAdd(valmin, FMul(FromInt(j), valstep))

\* valstep = 0.1
TENTH == Lit(13421773, -27)

\* valmin = 0.5 of the 'Shade top' slider
HALF == Lit(8388608, -24)

\* The slider positions the model moves to, as steps from valmin.
BotSteps == {0, 30, 31, 140}

TopSteps == {0, 5, 35, 95}

CylSteps == {0, 1, 10, 40}

SidSteps == 0..4

update(a, bot, top, cyl, sid) == update_plot(a, bot, top, cyl, sid)

NoPrev == [status |-> "none"]

Init ==
    /\ s_bot = FromInt(4)
    /\ s_top = FromInt(1)
    /\ s_cyl = FromInt(2)
    /\ s_sid = 5
    /\ \E r \in {update_plot(NewAxes, FromInt(4), FromInt(1), FromInt(2), init_sides)} :
          ax = r.ax /\ frame = r.frame
    /\ prev = NoPrev

Redraw(r) == ax' = r.ax /\ frame' = r.frame

s_bot_changed(j) ==
    LET val == SliderVal(FromInt(1), TENTH, j)
    IN  /\ s_bot' = val
        /\ UNCHANGED <<s_top, s_cyl, s_sid, prev>>
        /\ Redraw(update(ax, val, s_top, s_cyl, s_sid))

s_top_changed(j) ==
    LET val == SliderVal(HALF, TENTH, j)
    IN  /\ s_top' = val
        /\ UNCHANGED <<s_bot, s_cyl, s_sid, prev>>
        /\ Redraw(update(ax, s_bot, val, s_cyl, s_sid))

s_cyl_changed(j) ==
    LET val == SliderVal(FromInt(2), TENTH, j)
    IN  /\ s_cyl' = val
        /\ UNCHANGED <<s_bot, s_top, s_sid, prev>>
        /\ Redraw(update(ax, s_bot, s_top, val, s_sid))

s_sid_changed(j) ==
    LET val == 4 + j * 1
    IN  /\ s_sid' = val
        /\ UNCHANGED <<s_bot, s_top, s_cyl, prev>>
        /\ Redraw(update(ax, s_bot, s_top, s_cyl, val))

Next ==
    \/ \E j \in BotSteps : s_bot_changed(j)
    \/ \E j \in TopSteps : s_top_changed(j)
    \/ \E j \in CylSteps : s_cyl_changed(j)
    \/ \E j \in SidSteps : s_sid_changed(j)

Spec == Init /\ [][Next]_vars

----------------------------------------------------------------------------
(* update_plot as a function of its four arguments: a caller supplies any  *)
(* four scalars, calls once, and then asks again with another cylinder     *)
(* radius for the same shade.                                              *)

\* The float next above a positive x.
NextUp(x) == Round(x.m + 1, x.e)

RadiusArgs ==
    { Zero, Lit(1, -18), Lit(1, -17), HALF, FromInt(1), FromInt(4), FromInt(6) }

SidesArgs == 1..8

CylArgs(bot, top, sides) ==
    { Apothem(bot, sides), Apothem(top, sides), NextUp(Apothem(top, sides)),
      FromInt(2), NextUp(FromInt(2)), FromInt(6) }

InitCall ==
    /\ s_bot \in RadiusArgs
    /\ s_top \in RadiusArgs
    /\ s_sid \in SidesArgs
    /\ s_cyl \in CylArgs(s_bot, s_top, s_sid)
    /\ ax = NewAxes
    /\ frame = [status |-> "pending"]
    /\ prev = NoPrev

Call ==
    /\ frame.status = "pending"
    /\ Redraw(update_plot(ax, s_bot, s_top, s_cyl, s_sid))
    /\ UNCHANGED <<s_bot, s_top, s_cyl, s_sid, prev>>

CallAgain(c2) ==
    /\ frame.status = "returned"
    /\ prev = NoPrev
    /\ prev' = [status |-> "returned", c_r |-> s_cyl, z_int |-> frame.z_int]
    /\ s_cyl' = c2
    /\ Redraw(update_plot(ax, s_bot, s_top, c2, s_sid))
    /\ UNCHANGED <<s_bot, s_top, s_sid>>

NextCall ==
    \/ Call
    \/ \E c2 \in CylArgs(s_bot, s_top, s_sid) : CallAgain(c2)

SpecCall == InitCall /\ [][NextCall]_vars

----------------------------------------------------------------------------
(* Properties.  Those about update_plot as a function are checked under    *)
(* SpecCall, in the states a call has left (frame.status says how it       *)
(* ended); the one about the sliders under Spec.                           *)

Returned == frame.status = "returned"

ShowsCovered == ax.title.text = "Height of glass covered"

ShowsNone == ax.title.text = "No Side Intersection"

\* The apothems of the arguments, and the degenerate band of line 61.
ArgBot == Apothem(s_bot, s_sid)

ArgTop == Apothem(s_top, s_sid)

InBand == FLe(FAbs(FSub(ArgTop, ArgBot)), TAPER_EPS)

\* The documented domain of the radii.
PositiveRadii == FLt(Zero, s_bot) /\ FLt(Zero, s_top) /\ FLt(Zero, s_cyl)

\* C1: an untapered shade (equal circumradii, or apothems no more than 1e-5
\* apart) gets the sentinel -1 and the title 'No Side Intersection', whatever
\* the cylinder radius and the side count.
C1_UntaperedIsNone ==
    (Returned /\ (s_bot = s_top \/ InBand))
        => (frame.z_int = FromInt(-1) /\ ShowsNone)

C1_Witness ==
    /\ Returned /\ s_sid >= 3
    /\ s_bot = s_top /\ FLt(Zero, s_bot) /\ FLt(Zero, s_cyl)
    /\ ShowsNone

\* C2: the title reports a covered height exactly when the unclamped z_int is
\* in [0, f_h], and the height it shows is z_int to two decimals; a z_int
\* outside the range is reported as 'No Side Intersection' although z_vis is
\* in the range.
C2_ValidityUsesRawZ ==
    Returned =>
        /\ ShowsCovered <=> (FLe(Zero, frame.z_int) /\ FLe(frame.z_int, f_h))
        /\ ShowsCovered \/ ShowsNone
        /\ ShowsCovered => ax.title.height = FormatFixed(frame.z_int, 2)

C2_Witness ==
    /\ Returned /\ s_sid >= 3 /\ PositiveRadii /\ ~InBand
    /\ FLt(f_h, frame.z_int)
    /\ frame.z_vis = f_h
    /\ ShowsNone

\* The floats next to f_h.
NextDown(x) ==
    IF x.m = Pow2(P - 1) THEN Round(2 * x.m - 1, x.e - 1)
    ELSE Round(x.m - 1, x.e)

NearH(z) == z \in {NextDown(f_h), f_h, NextUp(f_h)}

\* C3 as stated: for n >= 3 and unequal circumradii, a cylinder radius equal to
\* the bottom apothem solves to z = 0 and one equal to the top apothem to
\* z = f_h.
C3_EndpointsAsStated ==
    (Returned /\ s_sid >= 3 /\ s_bot # s_top /\ PositiveRadii) =>
        /\ s_cyl = ArgBot => frame.z_int = Zero
        /\ s_cyl = ArgTop => frame.z_int = f_h

\* C3, amended: when the apothems differ by more than 1e-5, a cylinder radius
\* equal to the bottom apothem solves to exactly 0, and one equal to the top
\* apothem to f_h or a float next to it; unequal circumradii whose apothems
\* are within 1e-5 get the sentinel -1 instead.
C3_Endpoints ==
    (Returned /\ s_sid >= 3) =>
        /\ ~InBand =>
            /\ s_cyl = ArgBot => frame.z_int = Zero
            /\ s_cyl = ArgTop => NearH(frame.z_int)
        /\ InBand => frame.z_int = FromInt(-1)

C3_Witness ==
    /\ Returned /\ s_sid >= 3 /\ PositiveRadii /\ ~InBand
    /\ s_cyl = ArgTop
    /\ frame.z_int = NextUp(f_h)
    /\ ShowsNone

\* A second solve was asked for the same shade: prev holds the first.
AskedTwice == Returned /\ prev.status = "returned"

\* The shade widens upwards, outside the degenerate band.
TaperUp == ~InBand /\ FLt(ArgBot, ArgTop)

FMax(a, b) == IF FLe(a, b) THEN b ELSE a

\* C4 as stated: with the top apothem above the bottom one, of two cylinder
\* radii the larger solves to the strictly larger height.
C4_StrictlyIncreasing ==
    (AskedTwice /\ s_sid >= 3 /\ PositiveRadii /\ TaperUp
        /\ FLt(prev.c_r, s_cyl))
        => FLt(prev.z_int, frame.z_int)

\* c2 is above c1 by at least 2^(5-P) of the largest of c1, c2 and the bottom
\* apothem: 32 units of rounding.
Separated(c1, c2) ==
    FLe(FMul(Lit(1, 5 - P), FMax(FMax(FAbs(c1), FAbs(c2)), FAbs(ArgBot))),
        FSub(c2, c1))

\* C4, amended: with the top apothem above the bottom one, of two cylinder
\* radii the larger never solves to a smaller height, and it solves to a
\* strictly larger one when the radii are separated by 32 units of rounding;
\* closer radii may solve to the same height.
C4_Increasing ==
    (AskedTwice /\ s_sid >= 3 /\ TaperUp /\ FLt(prev.c_r, s_cyl)) =>
        /\ FLe(prev.z_int, frame.z_int)
        /\ Separated(prev.c_r, s_cyl) => FLt(prev.z_int, frame.z_int)

C4_Witness ==
    /\ AskedTwice /\ s_sid >= 3 /\ PositiveRadii /\ TaperUp
    /\ prev.c_r = ArgBot /\ s_cyl = ArgTop
    /\ Separated(prev.c_r, s_cyl)
    /\ prev.z_int = Zero /\ FLt(Zero, frame.z_int)

\* C5: a call with fewer than three sides or a radius that is not positive
\* ends with an InvalidArgument error, and returns no height and no length.
C5_InvalidRejected ==
    (frame.status # "pending" /\ (s_sid < 3 \/ ~PositiveRadii))
        => (frame.status = "raised" /\ frame.exc = "InvalidArgument")

\* C6: midpoint i of a ring is at the angle of vertex i plus half the angular
\* step, pi / sides, for every ring get_face_midpoints returned.
C6_MidpointOnBisector ==
    (Returned /\ s_sid >= 3 /\ PositiveRadii) =>
        \A k \in 1..s_sid :
            /\ frame.m_bot[k].a = VertexAngle(k - 1, s_sid) + HalfTurn \div s_sid
            /\ frame.m_top[k].a = VertexAngle(k - 1, s_sid) + HalfTurn \div s_sid

\* C7: whatever the outcome, the title delivers the three cut lengths next to
\* the height or 'No Side Intersection'.
C7_AllOutputsDelivered ==
    (Returned /\ s_sid >= 3 /\ PositiveRadii) =>
        /\ ShowsCovered \/ ShowsNone
        /\ {"top", "bottom", "length"} \subseteq DOMAIN ax.title
        /\ ax.title.top = FormatFixed(frame.v_top_len, 1)
        /\ ax.title.bottom = FormatFixed(frame.v_bot_len, 1)
        /\ ax.title.length = FormatFixed(frame.m_len, 1)

\* H^2 + (bottom inradius - top inradius)^2 from the locals of the call.
SlantSquared == FAdd(Sq(f_h), Sq(FSub(frame.in_bot, frame.in_top)))

\* The radii the sliders offer: positive and no more than 15.
SliderRange ==
    PositiveRadii /\ FLe(s_bot, FromInt(15)) /\ FLe(s_top, FromInt(15))

\* C8 as stated: m_len^2 equals H^2 + (bottom inradius - top inradius)^2.
C8_SlantIsPythagoras ==
    (Returned /\ s_sid >= 3 /\ SliderRange) => Sq(frame.m_len) = SlantSquared

\* C8, amended: m_len^2 and H^2 + (bottom inradius - top inradius)^2 agree to
\* within 2^(5-P) of the latter (32 units of rounding), for radii the
\* sliders offer; they need not be the same float.
C8_SlantNearPythagoras ==
    (Returned /\ s_sid >= 3 /\ SliderRange) =>
        FLe(FAbs(FSub(Sq(frame.m_len), SlantSquared)),
            FMul(Lit(1, 5 - P), SlantSquared))

C8_Witness ==
    /\ Returned /\ s_sid = 4 /\ SliderRange
    /\ s_bot = HALF /\ s_top = FromInt(1)
    /\ frame.m_top[1].a = frame.m_bot[1].a
    /\ FLt(f_h, frame.m_len)
    /\ Sq(frame.m_len) # SlantSquared

\* C9: after any slider changes the axes and the locals are those of one
\* update_plot call on fresh axes with the four current slider values, and
\* so is the first display, with the values 4.0, 1.0, 2.0 and 5.
C9_Stateless ==
    \E r \in {update_plot(NewAxes, s_bot, s_top, s_cyl, s_sid)} :
        ax = r.ax /\ frame = r.frame

C9_Witness ==
    /\ s_bot # FromInt(4) /\ s_top # FromInt(1)
    /\ s_cyl # FromInt(2) /\ s_sid # init_sides
    /\ ShowsNone /\ ax.scatter = <<>>

\* The cylinder radius is between the two apothems, ends included.
Between ==
    \/ FLe(ArgBot, s_cyl) /\ FLe(s_cyl, ArgTop)
    \/ FLe(ArgTop, s_cyl) /\ FLe(s_cyl, ArgBot)

\* C10 as stated: outside the degenerate band a covered height is reported
\* exactly when the cylinder radius is between the two apothems.
C10_ValidIffBetween ==
    (Returned /\ s_sid >= 3 /\ PositiveRadii /\ ~InBand)
        => (ShowsCovered <=> Between)

\* The cylinder radius is at least 2^(4-P) of the apothems' difference (16
\* units of rounding) away from the top apothem.
ClearOfTop ==
    FLe(FMul(Lit(1, 4 - P), FAbs(FSub(ArgTop, ArgBot))),
        FAbs(FSub(s_cyl, ArgTop)))

\* C10, amended: outside the degenerate band, for a cylinder radius that is
\* not within 16 units of rounding of the top apothem, a covered height is
\* reported exactly when the radius is between the two apothems; at the
\* bottom apothem the height is 0 and reported as covered.
C10_ValidIffBetweenClearOfTop ==
    (Returned /\ s_sid >= 3 /\ ~InBand) =>
        /\ ClearOfTop => (ShowsCovered <=> Between)
        /\ ShowsCovered \/ ShowsNone
        /\ s_cyl = ArgBot => (ShowsCovered /\ ax.title.height = 0)

C10_Witness ==
    /\ Returned /\ s_sid = 5 /\ ~InBand /\ ClearOfTop
    /\ s_bot = FromInt(4) /\ s_top = FromInt(1) /\ s_cyl = FromInt(6)
    /\ ~Between /\ FLt(frame.z_int, Zero)
    /\ ShowsNone

====
